---- MODULE Spec2Model ----
(***************************************************************************)
(* Payment reconciliation pipeline of super-checkout-platform:             *)
(*   - the Mercado Pago webhook receiver (src/api/webhooks/mercadopago.ts) *)
(*   - the client status poll (check-status handler in                     *)
(*     src/api/domains/add.ts, lines 124-329)                              *)
(*   - the record store they talk to, with the uniqueness constraints of   *)
(*     access_grants (schemaSql in src/api/installer/supabase.ts).         *)
(* Every fetch() of a handler is one step.  A fetch either answers ok,     *)
(* answers with an error status ("err") or rejects ("throw").              *)
(***************************************************************************)
EXTENDS Integers, Sequences, FiniteSets, TLC

VARIABLES
    payStatus,   \* payments.status of payment p1 of order o1 ("none": no row yet)
    oldStatus,   \* payments.status of an older attempt p0 of o1 ("none": no row)
    ordStatus,   \* orders.status of order o1
    ordUser,     \* orders.customer_user_id of order o1 (0 = NULL)
    accounts,    \* auth.users: sequence of emails, the account id is the index
    grants,      \* access_grants rows
    mailed,      \* confirmation emails the mailer accepted for order o1
    mailFailed,  \* a confirmation email for order o1 was sent and not accepted
    gws,         \* gateways rows, in the order the store returns them
    items,       \* orders.items of order o1: product_id of each line item
    hk,          \* webhook invocations: locals, position, response, calls made
    pl,          \* the poll invocation: locals, position, response, calls made
    mb,          \* the member administration request: locals, position, response
    deliveries,  \* invocations started so far
    limit,       \* invocations that may be started in this run
    conc,        \* how many invocations may overlap
    answers,     \* the native statuses the gateway may report in this run
    budget,      \* failing answers allowed to the invocations in flight (-1: any)
    audit        \* how webhook_logs answers the audit entries written in this run

vars == <<payStatus, oldStatus, ordStatus, ordUser, accounts, grants, mailed,
          mailFailed, gws, items, hk, pl, mb,
          deliveries, limit, conc, answers, budget, audit>>

-----------------------------------------------------------------------------
(* Bounds *)

MaxDeliveries == 2
MaxFaultsConc == 1

-----------------------------------------------------------------------------
(* Data the invocations run on *)

Hooks == {1, 2}
Canon == {"pending", "paid", "failed", "refunded"}
Native == {"approved", "rejected", "cancelled", "in_process", "pending",
           "refunded", "charged_back", "authorized"}
NoAnswer == "never"           \* the gateway's status endpoint does not answer
OrderIds == {"o1", "oX"}      \* o1 is stored, oX is not
BuyerEmail == "buyer"         \* orders.customer_email of o1
PaymentGateway == "g1"        \* payments.gateway_id of p1
CheckoutProduct == "pB"       \* checkouts.product_id of the checkout of o1

\* product_contents rows: the content ids linked to a product
ProductContents(p) ==
    CASE p = "pA" -> <<"c1", "c2">>
      [] p = "pB" -> <<"c3">>
      [] OTHER -> <<>>

\* orders.items alternatives: "none" is a line item without product_id
ItemChoices == { <<"pA">>, <<"pB", "pA">>, <<"none">> }

\* gateways table alternatives
\* gateways rows; key: the row carries a private_key (the column is nullable and
\* was added to older tables, supabase.ts 181, 190)
Gw(id, name, active) == [id |-> id, name |-> name, active |-> active, key |-> TRUE]
NoKey(g) == [g EXCEPT !.key = FALSE]
GatewayChoices ==
    { <<>>,
      <<Gw("g2", "mercado_pago", TRUE), Gw("g1", "mercado_pago", TRUE)>>,
      <<Gw("g2", "mercado_pago", TRUE), Gw("g1", "mercado_pago", FALSE)>>,
      <<Gw("g1", "mercado_pago", FALSE)>> }

-----------------------------------------------------------------------------
(* Pure helpers *)

\* mercadopago.ts 181-187
TranslateNoChargeback(status) ==
    IF status = "approved" THEN "paid"
    ELSE IF status = "rejected" \/ status = "cancelled" THEN "failed"
    ELSE IF status = "in_process" \/ status = "pending" THEN "pending"
    ELSE IF status = "refunded" THEN "refunded"
    ELSE "pending"

TranslateUnknownFailed(status) ==
    IF status = "approved" THEN "paid"
    ELSE IF status = "rejected" \/ status = "cancelled" THEN "failed"
    ELSE IF status = "in_process" \/ status = "pending" THEN "pending"
    ELSE IF status = "refunded" \/ status = "charged_back" THEN "refunded"
    ELSE "failed"

TranslateKeepUnknown(status) ==
    IF status = "approved" THEN "paid"
    ELSE IF status = "rejected" \/ status = "cancelled" THEN "failed"
    ELSE IF status = "in_process" \/ status = "pending" THEN "pending"
    ELSE IF status = "refunded" \/ status = "charged_back" THEN "refunded"
    ELSE status

Translate(status) ==
    IF status = "approved" THEN "paid"
    ELSE IF status = "rejected" \/ status = "cancelled" THEN "failed"
    ELSE IF status = "in_process" \/ status = "pending" THEN "pending"
    ELSE IF status = "refunded" \/ status = "charged_back" THEN "refunded"
    ELSE "pending"

\* mercadopago.ts 210-214, 311-312: order._shouldSendEmail
GateIgnoringLink(newSt, paySt, ordSt, linked) ==
    newSt = "paid" /\ (paySt # newSt \/ ordSt # newSt)

GateOnPaymentChange(newSt, paySt, ordSt, linked) ==
    newSt = "paid" /\ paySt # newSt

GateAlways(newSt, paySt, ordSt, linked) ==
    newSt = "paid"

ShouldSendEmail(newSt, paySt, ordSt, linked) ==
    LET isPaymentsynced == paySt = newSt
        isOrderSynced == ordSt = newSt
        isUserLinked == linked
    IN  newSt = "paid" /\ (~isPaymentsynced \/ ~isOrderSynced \/ ~isUserLinked)

\* mercadopago.ts 214-219: statusChanged is logged, the writes do not depend on it
StatusWritesIfChanged(statusChanged) == statusChanged

StatusWritesDue(statusChanged) == TRUE

\* mercadopago.ts 256-301: the dispatch does not depend on statusChanged either
DispatchIfChanged(statusChanged) == statusChanged

DispatchDue(statusChanged) == TRUE

\* mercadopago.ts 529: the account step runs for an order without linked account
NeedsAccountAnyOrder(found, user, gate) == found /\ gate

NeedsAccount(found, user, gate) == found /\ user = 0 /\ gate

\* add.ts 252-257
TranslatePoll(mpStatus) ==
    IF mpStatus = "approved" THEN "paid"
    ELSE IF mpStatus = "rejected" \/ mpStatus = "cancelled" THEN "failed"
    ELSE IF mpStatus = "in_process" \/ mpStatus = "pending" THEN "pending"
    ELSE IF mpStatus = "refunded" THEN "refunded"
    ELSE "pending"

\* add.ts 262: order.status.toLowerCase()
Lower(status) ==
    CASE status = "PENDING" -> "pending"
      [] status = "PAID" -> "paid"
      [] status = "FAILED" -> "failed"
      [] status = "REFUNDED" -> "refunded"
      [] OTHER -> status

\* add.ts 299: replay the webhook only on pending -> paid
ReplayOnPaid(newStatus, currentStatusNorm) ==
    newStatus = "paid"

ReplayNeeded(newStatus, currentStatusNorm) ==
    newStatus = "paid" /\ currentStatusNorm = "pending"

\* add.ts 218-234: the gateway row of the payment, if it is a Mercado Pago one
PollGateway(g) ==
    LET hit == {i \in 1..Len(g) : g[i].id = PaymentGateway}
        first == CHOOSE i \in hit : \A j \in hit : i <= j
    IN  IF hit = {} THEN "none"
        ELSE IF g[first].name # "Mercado Pago" /\ g[first].name # "mercado_pago" THEN "none"
        ELSE g[first].id

\* the rows of gateways?name=eq.mercado_pago&active=eq.true
ActiveGateways(g) == SelectSeq(g, LAMBDA x : x.name = "mercado_pago" /\ x.active)

\* mercadopago.ts 142-147: the credential used ("none" when there is none)
SelectGatewayAnyRow(found, g) ==
    IF Len(g) = 0 THEN "none" ELSE g[1].id

SelectGateway(found, g) ==
    LET act == ActiveGateways(g)
        hit == {i \in 1..Len(act) : act[i].id = PaymentGateway}
    IN  IF Len(act) = 0 THEN "none"
        ELSE IF found /\ hit # {} THEN act[CHOOSE i \in hit : \A j \in hit : i <= j].id
        ELSE act[1].id

\* mercadopago.ts 562-564: the id of the account the Auth API has just created
NewAccountIdFirstRow(acc) == 1

NewAccountId(acc) == Len(acc) + 1

\* mercadopago.ts 147, 158-161 and add.ts 234: the token is the private_key of
\* the chosen row ("none" when no row was chosen or the row carries no key)
AccessToken(g, id) ==
    IF \E i \in 1..Len(g) : g[i].id = id /\ g[i].key THEN id ELSE "none"

\* users?.find(u => u.email === email): id of the first account with the email
FindFirstListed(acc, email) == IF Len(acc) = 0 THEN 0 ELSE 1

FindByEmail(acc, email) ==
    LET hit == {i \in 1..Len(acc) : acc[i] = email}
    IN  IF hit = {} THEN 0 ELSE CHOOSE i \in hit : \A j \in hit : i <= j

\* mercadopago.ts 660-668: product ids of the line items that carry one
RECURSIVE ItemProducts(_)
ItemProducts(its) ==
    IF its = <<>> THEN <<>>
    ELSE IF Head(its) # "none" THEN <<Head(its)>> \o ItemProducts(Tail(its))
    ELSE ItemProducts(Tail(its))

\* access_grants: UNIQUE(user_id, content_id), UNIQUE(user_id, product_id)
GrantAllowedContentOnly(g, u, c, p) ==
    ~ \E r \in g : r.user = u /\ r.content = c

GrantAllowedUnchecked(g, u, c, p) == TRUE

GrantAllowed(g, u, c, p) ==
    /\ ~ \E r \in g : r.user = u /\ r.content = c
    /\ ~ \E r \in g : r.user = u /\ r.product = p

\* mercadopago.ts 708-714: the row inserted; id is gen_random_uuid()
GrantRow(g, u, c, p) ==
    [id |-> Cardinality(g) + 1, user |-> u, content |-> c, product |-> p,
     status |-> "active"]

\* a grants table with the rows in hit set to active
Activated(g, hit) ==
    (g \ hit) \cup {[r EXCEPT !.status = "active"] : r \in hit}

\* supabase.ts 458-493: trigger on_order_paid_grant_access, run inside the
\* UPDATE of orders that makes the status paid.  The account is looked up by
\* the order's customer_email; for every content of the checkout's product a row
\* is inserted ON CONFLICT (user_id, content_id) DO UPDATE SET status = 'active',
\* then a row without content ON CONFLICT (user_id, product_id) DO UPDATE.  An
\* insert that meets the other UNIQUE constraint raises and the UPDATE is undone:
\* abort is then TRUE and no row is changed.
RECURSIVE TriggerContents(_, _, _)
TriggerContents(g, u, cs) ==
    IF cs = <<>> THEN [abort |-> FALSE, rows |-> g]
    ELSE LET c == Head(cs)
             same == {r \in g : r.user = u /\ r.content = c}
         IN  IF same # {} THEN TriggerContents(Activated(g, same), u, Tail(cs))
             ELSE IF \E r \in g : r.user = u /\ r.product = CheckoutProduct
             THEN [abort |-> TRUE, rows |-> g]
             ELSE TriggerContents(
                      g \cup {GrantRow(g, u, c, CheckoutProduct)}, u, Tail(cs))

OrderPaidTriggerOff(g, acc) == [abort |-> FALSE, rows |-> g]

OrderPaidTrigger(g, acc) ==
    LET u == FindByEmail(acc, BuyerEmail)
        t == TriggerContents(g, u, ProductContents(CheckoutProduct))
        same == {r \in t.rows : r.user = u /\ r.product = CheckoutProduct}
    IN  IF u = 0 THEN [abort |-> FALSE, rows |-> g]
        ELSE IF t.abort THEN [abort |-> TRUE, rows |-> g]
        ELSE IF same # {} THEN [abort |-> FALSE, rows |-> Activated(t.rows, same)]
        ELSE [abort |-> FALSE,
              rows |-> t.rows \cup {GrantRow(t.rows, u, "none", CheckoutProduct)}]

\* the trigger acts when an UPDATE makes the status paid and it was not (462)
TriggerFires(old, new) == new = "paid" /\ old # "paid"

\* api/admin/members.ts 113-126: upsert of {user_id, product_id, status} with
\* onConflict (user_id, product_id); the row of a new grant has no content
MemberGrant(g, u, p) ==
    LET same == {r \in g : r.user = u /\ r.product = p}
    IN  IF same # {} THEN Activated(g, same)
        ELSE g \cup {GrantRow(g, u, "none", p)}

RECURSIVE MemberGrants(_, _, _)
MemberGrants(g, u, ps) ==
    IF ps = <<>> THEN g ELSE MemberGrants(MemberGrant(g, u, Head(ps)), u, Tail(ps))

\* api/admin/members.ts 39, 288: the email and productIds a request may carry
MemberEmails == {BuyerEmail, "other"}
MemberProductLists == {<<>>, <<"pA">>, <<"pB">>, <<"pA", "pB">>}

\* a deleted account keeps its place in accounts as "gone": identifiers are not
\* used again, and a row that names a deleted account is refused by the foreign
\* keys orders.customer_user_id and access_grants.user_id (supabase.ts 266, 294)
AccountExists(acc, u) == u \in 1..Len(acc) /\ acc[u] # "gone"

\* api/admin/members.ts 317: auth.admin.deleteUser is refused while orders or
\* access_grants refer to the account (supabase.ts 266, 294: no ON DELETE)
Referenced(u) == ordUser = u \/ \E r \in grants : r.user = u

\* mercadopago.ts 91: payload.data?.id || payload.id
PaymentIdAssumed(dataId, id) == IF dataId # "none" THEN dataId ELSE "t1"

PaymentIdOf(dataId, id) == IF dataId # "none" THEN dataId ELSE id

\* add.ts 193: the poll's short cut
AlreadyPaidNever(status) == FALSE

AlreadyPaid(status) == status = "paid" \/ status = "approved"

-----------------------------------------------------------------------------
(* Invocation records *)

Fresh ==
    [pc |-> "idle", hasId |-> FALSE, pid |-> "none", payFound |-> FALSE, paySt |-> "none",
     ordFound |-> FALSE, ordSt |-> "none", usr0 |-> 0, ordUsr |-> 0, token |-> "none",
     mp |-> "none", newSt |-> "none", gate |-> FALSE, userId |-> 0,
     prods |-> <<>>, gi |-> 0, conts |-> <<>>, gj |-> 0,
     code |-> 0, body |-> "none", calls |-> {}, nf |-> 0, bad |-> {},
     g0 |-> {}, replay |-> FALSE]

FreshPoll ==
    [pc |-> "idle", oid |-> "none", ordSt |-> "none", pid |-> "none", token |-> "none",
     mp |-> "none", newSt |-> "none", child |-> 0,
     code |-> 0, body |-> "none", calls |-> {}, nf |-> 0, bad |-> {}]

\* api/admin/members.ts: locals of a request (userId: userId 43 / targetId 289)
FreshMember ==
    [pc |-> "idle", act |-> "none", email |-> "none", prods |-> <<>>, userId |-> 0,
     code |-> 0, body |-> "none", calls |-> {}, nf |-> 0, bad |-> {}]

Respond(r, code, body) == [r EXCEPT !.pc = "done", !.code = code, !.body = body]

\* a call was made and answered o; with a budget of failing answers the
\* invocation also keeps which call failed and how
Called(r, call, o) ==
    [r EXCEPT !.calls = @ \cup {call},
              !.nf = IF o = "ok" THEN @ ELSE IF budget < 0 THEN 1 ELSE @ + 1,
              !.bad = IF o = "ok" \/ budget < 0 THEN @ ELSE @ \cup {<<call, o>>}]

\* answers webhook_logs may give to an audit entry
LogAnswers == {"ok", "err", "throw"}

\* mercadopago.ts 49-80: logToSupabase does not look at the answer to its POST
\* and catches a rejected one; the handler goes on from r whatever the answer lo
LoggedUncaught(r, lo) == IF lo = "throw" THEN Respond(r, 500, "error") ELSE r

Logged(r, lo) == r

\* mercadopago.ts 521-524: a rejected fetch of the email step is caught and logged
EmailUncaught(r) == Respond(r, 500, "error")

EmailCaught(r) == [r EXCEPT !.pc = "createUser"]

\* mercadopago.ts 736-745: a rejected fetch of the grant step is caught and logged
GrantUncaught(r) == Respond(r, 500, "error")

GrantCaught(r) == Respond(r, 200, "success")

\* add.ts 324-328: whatever the poll throws is answered 200 pending
PollUncaught(r) == Respond(r, 500, "error")

PollCaught(r) == Respond(r, 200, "pending")

\* no collaborator has failed the invocation so far
Clean(r) == r.nf = 0

\* answers a collaborator may give to one fetch
Failed == pl.nf + hk[1].nf + hk[2].nf + mb.nf
Outcomes == IF budget >= 0 /\ Failed >= budget THEN {"ok"} ELSE {"ok", "err", "throw"}

Running == Cardinality({h \in Hooks : hk[h].pc # "idle" /\ ~hk[h].replay})
           + (IF pl.pc # "idle" THEN 1 ELSE 0)
           + (IF mb.pc # "idle" THEN 1 ELSE 0)

FirstIdle(h) == hk[h].pc = "idle" /\ \A g \in Hooks : hk[g].pc = "idle" => h <= g

Store == <<payStatus, oldStatus, ordStatus, ordUser, accounts, grants, mailed,
           mailFailed>>

\* payments?transaction_id=eq.<pid>: t1 is the transaction of p1, t0 that of p0
StoredPayment(pid) == IF pid = "t0" THEN oldStatus ELSE payStatus

\* payments?order_id=eq.o1 in the order the store returns the rows: the older
\* attempt p0 (transaction t0) was created before p1 (transaction t1)
PaymentsOfOrder ==
    (IF oldStatus = "none" THEN <<>> ELSE <<[tid |-> "t0", created |-> 1]>>)
    \o (IF payStatus = "none" THEN <<>> ELSE <<[tid |-> "t1", created |-> 2]>>)

\* add.ts 209-210: sort by created_at, latest first, take the head
FirstReturned(rows) == rows[1].tid

LatestAttempt(rows) ==
    LET i == CHOOSE i \in 1..Len(rows) :
                 \A j \in 1..Len(rows) : rows[j].created <= rows[i].created
    IN  rows[i].tid

\* the transaction ids a notification may carry
TransactionIds == IF oldStatus = "none" THEN {"t1"} ELSE {"t0", "t1"}
Static == <<gws, items, limit, conc, answers, budget, audit>>

-----------------------------------------------------------------------------
(* Webhook receiver: mercadopago.ts handler.  Every step takes lo, the answer
   webhook_logs gives to the audit entries the step writes through
   logToSupabase (89, 95, 122, 154, 159, 173, 246, 300, 316, 321, 514-523,
   568-649, 729-752). *)

\* 84-97: receive the notification, extract the transaction id; without a
\* body (undefined or null) payload.data at 91 throws: 748-755 answer 500
WReceiveLog(h, lo) ==
    /\ FirstIdle(h)
    /\ Running < conc
    /\ deliveries < limit
    /\ \E body \in {"object", "absent"},
          dataId \in {"none"} \cup TransactionIds, id \in {"none", "t1"} :
         LET paymentId == PaymentIdOf(dataId, id)
             request == [Fresh EXCEPT !.hasId = dataId # "none" \/ id # "none",
                                      !.g0 = grants]
         IN  /\ body = "absent" => dataId = "none" /\ id = "none"
             /\ hk' = [hk EXCEPT ![h] = Logged(
                      IF body = "absent" THEN Respond(request, 500, "error")
                      ELSE IF paymentId # "none"
                      THEN [request EXCEPT !.pc = "fetchPayment", !.pid = paymentId]
                      ELSE Respond(request, 200, "ignored"), lo)]
    /\ deliveries' = deliveries + 1
    /\ UNCHANGED <<Store, Static, mb, pl>>

WReceive(h) == WReceiveLog(h, audit)

\* 101-124: payments?transaction_id=eq.<id>
WFetchPaymentLog(h, lo) ==
    /\ hk[h].pc = "fetchPayment"
    /\ \E o \in Outcomes :
         LET got == o = "ok" /\ StoredPayment(hk[h].pid) # "none"
         IN  hk' = [hk EXCEPT ![h] = Logged(
                [Called(@, "fetchPayment", o) EXCEPT
                    !.pc = "fetchGateway",
                    !.payFound = got,
                    !.paySt = IF got THEN StoredPayment(hk[h].pid) ELSE "none"], lo)]
    /\ UNCHANGED <<Store, Static, mb, pl, deliveries>>

WFetchPayment(h) == WFetchPaymentLog(h, audit)

\* 126-161: gateways?name=eq.mercado_pago&active=eq.true, pick the credential
WFetchGatewayLog(h, lo) ==
    /\ hk[h].pc = "fetchGateway"
    /\ \E o \in Outcomes :
         LET tok == IF o = "ok"
                    THEN AccessToken(gws, SelectGateway(hk[h].payFound, gws))
                    ELSE "none"
             r == [Called(hk[h], "fetchGateway", o) EXCEPT !.token = tok]
         IN  hk' = [hk EXCEPT ![h] = Logged(
                IF tok = "none" THEN Respond(r, 500, "error")
                ELSE [r EXCEPT !.pc = "queryMP"], lo)]
    /\ UNCHANGED <<Store, Static, mb, pl, deliveries>>

WFetchGateway(h) == WFetchGatewayLog(h, audit)

\* 163-187: GET api.mercadopago.com/v1/payments/<id>, translate the status;
\* the fetch at 165-169 carries no signal and no timer: while the endpoint does
\* not answer, the handler stays at the await
WQueryMPLog(h, lo) ==
    /\ hk[h].pc = "queryMP"
    /\ \E o \in Outcomes, st \in answers :
         LET r == Called(hk[h], "gateway", o)
         IN  hk' = [hk EXCEPT ![h] = Logged(
                IF st = NoAnswer
                THEN [Called(hk[h], "gateway", "ok") EXCEPT !.pc = "awaitGateway"]
                ELSE IF o = "ok"
                THEN [r EXCEPT !.pc = "fetchOrder", !.mp = st, !.newSt = Translate(st)]
                ELSE Respond(r, 500, "error"), lo)]
    /\ UNCHANGED <<Store, Static, mb, pl, deliveries>>

WQueryMP(h) == WQueryMPLog(h, audit)

\* 189-203: orders?id=eq.<order_id>; without a payment record nothing is read,
\* 318-326 log a warning and 740-742 dereference paymentRecord (null): 748-755
WFetchOrderLog(h, lo) ==
    /\ hk[h].pc = "fetchOrder"
    /\ \E o \in Outcomes :
         hk' = [hk EXCEPT ![h] = Logged(
            IF ~hk[h].payFound THEN Respond(@, 500, "error")
            ELSE [Called(@, "fetchOrder", o) EXCEPT
                     !.pc = "patchPayment",
                     !.ordFound = (o = "ok"),
                     !.ordSt = IF o = "ok" THEN ordStatus ELSE "none",
                     !.usr0 = IF o = "ok" THEN ordUser ELSE 0,
                     !.ordUsr = IF o = "ok" THEN ordUser ELSE 0], lo)]
    /\ UNCHANGED <<Store, Static, mb, pl, deliveries>>

WFetchOrder(h) == WFetchOrderLog(h, audit)

\* 210-232: PATCH payments?id=eq.<id>; the answer is not inspected
WPatchPaymentLog(h, lo) ==
    /\ hk[h].pc = "patchPayment"
    /\ \E o \in Outcomes :
         LET isPaymentsynced == hk[h].paySt = hk[h].newSt
             isOrderSynced == hk[h].ordFound /\ hk[h].ordSt = hk[h].newSt
             statusChanged == ~isPaymentsynced \/ ~isOrderSynced
         IN  IF StatusWritesDue(statusChanged)
             THEN /\ payStatus' = IF o = "ok" /\ hk[h].pid = "t1"
                                  THEN hk[h].newSt ELSE payStatus
                  /\ oldStatus' = IF o = "ok" /\ hk[h].pid = "t0"
                                  THEN hk[h].newSt ELSE oldStatus
                  /\ hk' = [hk EXCEPT ![h] = Logged(
                         [Called(@, "patchPayment", o) EXCEPT
                             !.pc = IF o = "throw" THEN "email" ELSE "patchOrder"], lo)]
             ELSE /\ UNCHANGED <<payStatus, oldStatus>>
                  /\ hk' = [hk EXCEPT ![h] = Logged([@ EXCEPT !.pc = "dispatch"], lo)]
    /\ UNCHANGED <<ordStatus, ordUser, accounts, grants, mailed, mailFailed, Static, mb, pl, deliveries>>

WPatchPayment(h) == WPatchPaymentLog(h, audit)

\* 234-244: PATCH orders?id=eq.<order_id>; the answer is not inspected.  The
\* UPDATE runs the trigger on_order_paid_grant_access (supabase.ts 458-493)
WPatchOrderLog(h, lo) ==
    /\ hk[h].pc = "patchOrder"
    /\ \E o \in Outcomes :
         LET fires == o = "ok" /\ TriggerFires(ordStatus, hk[h].newSt)
             after == IF fires THEN OrderPaidTrigger(grants, accounts)
                      ELSE [abort |-> FALSE, rows |-> grants]
             ans == IF after.abort THEN "err" ELSE o
         IN  /\ ordStatus' = IF ans = "ok" THEN hk[h].newSt ELSE ordStatus
             /\ grants' = after.rows
             /\ hk' = [hk EXCEPT ![h] = Logged(
                    [Called(@, "patchOrder", ans) EXCEPT
                        !.pc = IF ans = "throw" THEN "email" ELSE "dispatch"], lo)]
    /\ UNCHANGED <<payStatus, ordUser, accounts, mailed, mailFailed, oldStatus, Static, mb, pl, deliveries>>

WPatchOrder(h) == WPatchOrderLog(h, audit)

\* 256-313: POST functions/v1/dispatch-webhook (its failure is swallowed),
\* then the fulfillment flag is stored on the order object, if there is one
WDispatchLog(h, lo) ==
    /\ hk[h].pc = "dispatch"
    /\ \E o \in Outcomes :
         LET isPaymentsynced == hk[h].paySt = hk[h].newSt
             isOrderSynced == hk[h].ordFound /\ hk[h].ordSt = hk[h].newSt
             statusChanged == ~isPaymentsynced \/ ~isOrderSynced
             sent == IF DispatchDue(statusChanged)
                     THEN Called(hk[h], "dispatch", o) ELSE hk[h]
         IN  hk' = [hk EXCEPT ![h] = Logged(
                [sent EXCEPT
                    !.pc = "email",
                    !.gate = hk[h].ordFound /\
                             ShouldSendEmail(hk[h].newSt, hk[h].paySt,
                                             hk[h].ordSt, hk[h].ordUsr # 0)], lo)]
    /\ UNCHANGED <<Store, Static, mb, pl, deliveries>>

WDispatch(h) == WDispatchLog(h, audit)

\* 328-525: POST functions/v1/send-email
WEmailLog(h, lo) ==
    /\ hk[h].pc = "email"
    /\ \E o \in Outcomes :
         LET due == hk[h].newSt = "paid" /\ hk[h].payFound /\ hk[h].ordFound
                    /\ hk[h].gate
         IN  /\ hk' = [hk EXCEPT ![h] = Logged(
                    IF due
                    THEN IF o = "throw" THEN EmailCaught(Called(@, "email", o))
                         ELSE [Called(@, "email", o) EXCEPT !.pc = "createUser"]
                    ELSE [@ EXCEPT !.pc = "createUser"], lo)]
             /\ mailed' = IF due /\ o = "ok" THEN mailed + 1 ELSE mailed
             /\ mailFailed' = (mailFailed \/ (due /\ o # "ok"))
    /\ UNCHANGED <<payStatus, ordStatus, ordUser, accounts, grants, oldStatus,
                   Static, mb, pl, deliveries>>

WEmail(h) == WEmailLog(h, audit)

\* 528-573, 620-625: POST auth/v1/admin/users
WCreateUserLog(h, lo) ==
    /\ hk[h].pc = "createUser"
    /\ \E o \in Outcomes :
         LET r == Called(hk[h], "createUser", o)
             known == FindByEmail(accounts, BuyerEmail) # 0
         IN  IF ~NeedsAccount(hk[h].ordFound, hk[h].ordUsr, hk[h].gate)
             THEN /\ hk' = [hk EXCEPT ![h] = Logged([@ EXCEPT !.pc = "grant"], lo)]
                  /\ UNCHANGED accounts
             ELSE IF o # "ok"
             THEN /\ hk' = [hk EXCEPT ![h] = Logged([r EXCEPT !.pc = "grant"], lo)]
                  /\ UNCHANGED accounts
             ELSE IF known
             THEN /\ hk' = [hk EXCEPT ![h] = Logged([r EXCEPT !.pc = "listUsers"], lo)]
                  /\ UNCHANGED accounts
             ELSE /\ accounts' = Append(accounts, BuyerEmail)
                  /\ hk' = [hk EXCEPT ![h] = Logged(
                         [r EXCEPT !.pc = "linkUser", !.userId = NewAccountId(accounts)], lo)]
    /\ UNCHANGED <<payStatus, ordStatus, ordUser, grants, mailed, mailFailed, oldStatus, Static, mb, pl, deliveries>>

WCreateUser(h) == WCreateUserLog(h, audit)

\* 573-597: "already registered": GET auth/v1/admin/users, find by email
WListUsersLog(h, lo) ==
    /\ hk[h].pc = "listUsers"
    /\ \E o \in Outcomes :
         LET uid == IF o = "ok" THEN FindByEmail(accounts, BuyerEmail) ELSE 0
         IN  hk' = [hk EXCEPT ![h] = Logged(
                [Called(@, "listUsers", o) EXCEPT
                    !.userId = uid,
                    !.pc = IF o = "throw" THEN "grant"
                           ELSE IF uid # 0 THEN "linkUser"
                           ELSE "profiles"], lo)]
    /\ UNCHANGED <<Store, Static, mb, pl, deliveries>>

WListUsers(h) == WListUsersLog(h, audit)

\* 599-619: fallback profiles?email=eq.<email>; supabase.ts 429-455 keeps a
\* profile row, with the email, for every account
WProfilesLog(h, lo) ==
    /\ hk[h].pc = "profiles"
    /\ \E o \in Outcomes :
         LET uid == IF o = "ok" THEN FindByEmail(accounts, BuyerEmail) ELSE 0
         IN  hk' = [hk EXCEPT ![h] = Logged(
                [Called(@, "profiles", o) EXCEPT
                    !.userId = uid,
                    !.pc = IF o # "throw" /\ uid # 0 THEN "linkUser" ELSE "grant"], lo)]
    /\ UNCHANGED <<Store, Static, mb, pl, deliveries>>

WProfiles(h) == WProfilesLog(h, audit)

\* 627-645: PATCH orders customer_user_id; the answer is not inspected.  The
\* store refuses the identifier of an account deleted in the meantime
WLinkUserLog(h, lo) ==
    /\ hk[h].pc = "linkUser"
    /\ \E o \in Outcomes :
         LET ans == IF o = "ok" /\ ~AccountExists(accounts, hk[h].userId)
                    THEN "err" ELSE o
         IN  /\ ordUser' = IF ans = "ok" THEN hk[h].userId ELSE ordUser
             /\ hk' = [hk EXCEPT ![h] = Logged(
                    [Called(@, "linkUser", ans) EXCEPT
                        !.pc = "grant",
                        !.ordUsr = IF ans = "throw" THEN @ ELSE hk[h].userId], lo)]
    /\ UNCHANGED <<payStatus, ordStatus, accounts, grants, mailed, mailFailed, oldStatus, Static, mb, pl, deliveries>>

WLinkUser(h) == WLinkUserLog(h, audit)

\* 653-685, 740-745: collect the products to grant, or skip the step
WGrantLog(h, lo) ==
    /\ hk[h].pc = "grant"
    /\ \E o \in Outcomes :
         hk' = [hk EXCEPT ![h] = Logged(
            IF ~(hk[h].ordFound /\ hk[h].ordUsr # 0 /\ hk[h].gate)
            THEN Respond(@, 200, "success")
            ELSE IF ItemProducts(items) # <<>>
            THEN [@ EXCEPT !.pc = "fetchContents", !.gi = 1,
                           !.prods = ItemProducts(items)]
            ELSE IF o = "throw"
            THEN GrantCaught(Called(@, "fetchCheckout", o))
            ELSE [Called(@, "fetchCheckout", o) EXCEPT
                     !.pc = "fetchContents", !.gi = 1,
                     !.prods = IF o = "ok" THEN <<CheckoutProduct>> ELSE <<>>], lo)]
    /\ UNCHANGED <<Store, Static, mb, pl, deliveries>>

WGrant(h) == WGrantLog(h, audit)

\* 687-696, 724-745: product_contents?product_id=eq.<product>
WFetchContentsLog(h, lo) ==
    /\ hk[h].pc = "fetchContents"
    /\ \E o \in Outcomes :
         hk' = [hk EXCEPT ![h] = Logged(
            IF hk[h].gi > Len(hk[h].prods) THEN Respond(@, 200, "success")
            ELSE IF o = "throw" THEN GrantCaught(Called(@, "fetchContents", o))
            ELSE IF o = "err" THEN [Called(@, "fetchContents", o) EXCEPT !.gi = @ + 1]
            ELSE [Called(@, "fetchContents", o) EXCEPT
                     !.pc = "insertGrant", !.gj = 1,
                     !.conts = ProductContents(hk[h].prods[hk[h].gi])], lo)]
    /\ UNCHANGED <<Store, Static, mb, pl, deliveries>>

WFetchContents(h) == WFetchContentsLog(h, audit)

\* 698-723: POST access_grants, one row per content of the product
WInsertGrantLog(h, lo) ==
    /\ hk[h].pc = "insertGrant"
    /\ IF hk[h].gj > Len(hk[h].conts)
       THEN /\ hk' = [hk EXCEPT ![h] = Logged(
                   [@ EXCEPT !.pc = "fetchContents", !.gi = @ + 1,
                             !.conts = <<>>, !.gj = 0], lo)]
            /\ UNCHANGED grants
       ELSE \E o \in Outcomes :
              LET u == hk[h].ordUsr
                  c == hk[h].conts[hk[h].gj]
                  p == hk[h].prods[hk[h].gi]
                  ans == IF o = "ok" /\ ~AccountExists(accounts, u) THEN "err" ELSE o
                  r == Called(hk[h], "grantInsert", ans)
              IN  /\ grants' = IF ans = "ok" /\ GrantAllowed(grants, u, c, p)
                               THEN grants \cup {GrantRow(grants, u, c, p)}
                               ELSE grants
                  /\ hk' = [hk EXCEPT ![h] = Logged(
                         IF o = "throw" THEN GrantCaught(r)
                         ELSE [r EXCEPT !.gj = @ + 1], lo)]
    /\ UNCHANGED <<payStatus, ordStatus, ordUser, accounts, mailed, mailFailed, oldStatus, Static, mb, pl, deliveries>>

WInsertGrant(h) == WInsertGrantLog(h, audit)

\* the response has been sent; the invocation is over
WReturn(h) ==
    /\ hk[h].pc = "done"
    /\ ~hk[h].replay
    /\ hk' = [hk EXCEPT ![h] = Fresh]
    /\ UNCHANGED <<Store, Static, mb, pl, deliveries>>

-----------------------------------------------------------------------------
(* Client status poll: check-status handler, add.ts 138-329 *)

\* 162-166: a GET carrying an order id
PReceive ==
    /\ pl.pc = "idle"
    /\ Running < conc
    /\ deliveries < limit
    /\ \E oid \in OrderIds : pl' = [FreshPoll EXCEPT !.pc = "fetchOrder", !.oid = oid]
    /\ deliveries' = deliveries + 1
    /\ UNCHANGED <<Store, Static, mb, hk>>

\* 178-195, 324-328: orders?id=eq.<orderId>
PFetchOrder ==
    /\ pl.pc = "fetchOrder"
    /\ \E o \in Outcomes :
         LET r == Called(pl, "fetchOrder", o)
         IN  pl' = IF o # "ok" THEN PollCaught(r)
                   ELSE IF pl.oid # "o1" THEN Respond(r, 404, "error")
                   ELSE IF AlreadyPaid(ordStatus)
                   THEN Respond([r EXCEPT !.ordSt = ordStatus], 200, "paid")
                   ELSE [r EXCEPT !.pc = "fetchPayments", !.ordSt = ordStatus]
    /\ UNCHANGED <<Store, Static, mb, hk, deliveries>>

\* 197-214: payments?order_id=eq.<orderId>, the latest attempt
PFetchPayments ==
    /\ pl.pc = "fetchPayments"
    /\ \E o \in Outcomes :
         LET r == Called(pl, "fetchPayments", o)
         IN  pl' = IF o # "ok" THEN PollCaught(r)
                   ELSE IF PaymentsOfOrder = <<>> THEN Respond(r, 200, pl.ordSt)
                   ELSE [r EXCEPT !.pc = "fetchGateway",
                                  !.pid = LatestAttempt(PaymentsOfOrder)]
    /\ UNCHANGED <<Store, Static, mb, hk, deliveries>>

\* 216-234: gateways?id=eq.<payment.gateway_id>
PFetchGateway ==
    /\ pl.pc = "fetchGateway"
    /\ \E o \in Outcomes :
         LET r == Called(pl, "fetchGateway", o)
             tok == PollGateway(gws)
         IN  pl' = IF o # "ok" THEN PollCaught(r)
                   ELSE IF tok = "none" THEN Respond(r, 200, pl.ordSt)
                   ELSE [r EXCEPT !.pc = "queryMP", !.token = tok]
    /\ UNCHANGED <<Store, Static, mb, hk, deliveries>>

\* 236-266, 322: GET api.mercadopago.com/v1/payments/<transaction_id>; the
\* fetch at 237-241 carries no signal and no timer either; without a
\* private_key the bearer is not a token and the gateway refuses the query
PQueryMP ==
    /\ pl.pc = "queryMP"
    /\ \E o \in Outcomes, st \in answers :
         LET ans == IF AccessToken(gws, pl.token) = "none" /\ o = "ok"
                    THEN "err" ELSE o
             r == Called(pl, "gateway", ans)
             new == TranslatePoll(st)
         IN  pl' = IF st = NoAnswer
                   THEN [Called(pl, "gateway", "ok") EXCEPT !.pc = "awaitGateway"]
                   ELSE IF ans = "throw" THEN PollCaught(r)
                   ELSE IF ans = "err" THEN Respond(r, 200, pl.ordSt)
                   ELSE IF new # Lower(pl.ordSt)
                   THEN [r EXCEPT !.pc = "patchOrder", !.mp = st, !.newSt = new]
                   ELSE Respond([r EXCEPT !.mp = st, !.newSt = new], 200, new)
    /\ UNCHANGED <<Store, Static, mb, hk, deliveries>>

\* 269-279: PATCH orders?id=eq.<orderId>; the answer is not inspected.  The
\* UPDATE runs the trigger on_order_paid_grant_access (supabase.ts 458-493)
PPatchOrder ==
    /\ pl.pc = "patchOrder"
    /\ \E o \in Outcomes :
         LET fires == o = "ok" /\ TriggerFires(ordStatus, pl.newSt)
             after == IF fires THEN OrderPaidTrigger(grants, accounts)
                      ELSE [abort |-> FALSE, rows |-> grants]
             ans == IF after.abort THEN "err" ELSE o
             r == Called(pl, "patchOrder", ans)
         IN  /\ ordStatus' = IF ans = "ok" THEN pl.newSt ELSE ordStatus
             /\ grants' = after.rows
             /\ pl' = IF ans = "throw" THEN PollCaught(r)
                      ELSE [r EXCEPT !.pc = "patchPayment"]
    /\ UNCHANGED <<payStatus, ordUser, accounts, mailed, mailFailed, oldStatus, Static, mb, hk, deliveries>>

\* 281-299, 322: PATCH payments?id=eq.<payment.id>; the answer is not inspected
PPatchPayment ==
    /\ pl.pc = "patchPayment"
    /\ \E o \in Outcomes :
         LET r == Called(pl, "patchPayment", o)
         IN  /\ payStatus' = IF o = "ok" /\ pl.pid = "t1" THEN pl.newSt ELSE payStatus
             /\ oldStatus' = IF o = "ok" /\ pl.pid = "t0" THEN pl.newSt ELSE oldStatus
             /\ pl' = IF o = "throw" THEN PollCaught(r)
                      ELSE IF ReplayNeeded(pl.newSt, Lower(pl.ordSt))
                      THEN [r EXCEPT !.pc = "replay"]
                      ELSE Respond(r, 200, pl.newSt)
    /\ UNCHANGED <<ordStatus, ordUser, accounts, grants, mailed, mailFailed, Static, mb, hk, deliveries>>

\* 299-319: POST /api/webhooks/mercadopago with {data: {id: transaction_id}};
\* a rejected fetch is swallowed and the webhook does not run
PReplay ==
    /\ pl.pc = "replay"
    /\ \E o \in {"ok", "throw"}, h \in Hooks :
         /\ FirstIdle(h)
         /\ IF o = "throw"
            THEN /\ pl' = Respond(Called(pl, "replay", o), 200, pl.newSt)
                 /\ UNCHANGED hk
            ELSE /\ pl' = [Called(pl, "replay", o) EXCEPT !.pc = "await", !.child = h]
                 /\ hk' = [hk EXCEPT ![h] =
                        [Fresh EXCEPT !.pc = "fetchPayment", !.hasId = TRUE,
                                      !.pid = pl.pid, !.g0 = grants,
                                      !.replay = TRUE]]
    /\ UNCHANGED <<Store, Static, mb, deliveries>>

\* 308-322: the awaited webhook call has answered
PAwait ==
    /\ pl.pc = "await"
    /\ hk[pl.child].pc = "done"
    /\ pl' = Respond(pl, 200, pl.newSt)
    /\ hk' = [hk EXCEPT ![pl.child] = [@ EXCEPT !.pc = "returned"]]
    /\ UNCHANGED <<Store, Static, mb, deliveries>>

\* the response has been sent; the invocation is over
PReturn ==
    /\ pl.pc = "done"
    /\ pl' = FreshPoll
    /\ hk' = [h \in Hooks |-> IF hk[h].pc = "returned" THEN Fresh ELSE hk[h]]
    /\ UNCHANGED <<Store, Static, mb, deliveries>>

-----------------------------------------------------------------------------
(* Member administration: api/admin/members.ts handler, one step per awaited
   call that reads or writes the accounts or access_grants.  Its calls go through
   supabase-js, which answers a failed call with an error object.  The welcome
   email it sends (222-233) is not the confirmation email of an order. *)

\* answers supabase-js gives to one call
MemberOutcomes == Outcomes \ {"throw"}

\* 35-46: POST {action: 'create', email, productIds}; without email 400 (41)
MembersCreate ==
    /\ mb.pc = "idle"
    /\ Running < conc
    /\ deliveries < limit
    /\ \E email \in MemberEmails \cup {"none"}, prods \in MemberProductLists :
         /\ email = "none" => prods = <<>>
         /\ mb' = IF email = "none" THEN Respond([mb EXCEPT !.act = "create"], 400, "error")
                  ELSE [mb EXCEPT !.pc = "profile", !.act = "create",
                                  !.email = email, !.prods = prods]
    /\ deliveries' = deliveries + 1
    /\ UNCHANGED <<Store, Static, hk, pl>>

\* 288-291, 313: POST {action: 'delete', userId | email}; the target is the
\* userId when given, else looked up by email; with neither 400
MembersDelete ==
    /\ mb.pc = "idle"
    /\ Running < conc
    /\ deliveries < limit
    /\ \E userId \in 0..Len(accounts), email \in MemberEmails \cup {"none"} :
         /\ userId # 0 => email = "none"
         /\ mb' = IF userId # 0
                  THEN [mb EXCEPT !.pc = "deleteUser", !.act = "delete", !.userId = userId]
                  ELSE IF email # "none"
                  THEN [mb EXCEPT !.pc = "profile", !.act = "delete", !.email = email]
                  ELSE Respond([mb EXCEPT !.act = "delete"], 400, "error")
    /\ deliveries' = deliveries + 1
    /\ UNCHANGED <<Store, Static, hk, pl>>

\* 51-59 (create), 294-296 (delete): profiles row with the email; a failed
\* lookup is taken as no row
MembersProfile ==
    /\ mb.pc = "profile"
    /\ \E o \in MemberOutcomes :
         LET found == IF o = "ok" THEN FindByEmail(accounts, mb.email) ELSE 0
             r == Called(mb, "profile", o)
         IN  mb' = IF found # 0
                   THEN [r EXCEPT !.userId = found,
                                  !.pc = IF mb.act = "create" THEN "upsert"
                                         ELSE "deleteUser"]
                   ELSE [r EXCEPT !.pc = IF mb.act = "create" THEN "createUser"
                                         ELSE "listUsers"]
    /\ UNCHANGED <<Store, Static, hk, pl, deliveries>>

\* 63-108: auth.admin.createUser; "already registered" leads to the recovery
\* (71-73), another error to 400 (97-98); the role update of the new profile
\* (107) changes nothing kept here
MembersCreateUser ==
    /\ mb.pc = "createUser"
    /\ \E o \in MemberOutcomes :
         LET r == Called(mb, "createUser", o)
             known == FindByEmail(accounts, mb.email) # 0
         IN  IF o # "ok"
             THEN /\ mb' = Respond(r, 400, "error")
                  /\ UNCHANGED accounts
             ELSE IF known
             THEN /\ mb' = [r EXCEPT !.pc = "listUsers"]
                  /\ UNCHANGED accounts
             ELSE /\ accounts' = Append(accounts, mb.email)
                  /\ mb' = [r EXCEPT !.pc = "upsert", !.userId = NewAccountId(accounts)]
    /\ UNCHANGED <<payStatus, oldStatus, ordStatus, ordUser, grants, mailed, mailFailed, Static, hk, pl,
                   deliveries>>

\* 77-95 (create), 302-310 (delete): auth.admin.listUsers, find by email; not
\* found: 500 (94) for create, 400 (313) for delete
MembersListUsers ==
    /\ mb.pc = "listUsers"
    /\ \E o \in MemberOutcomes :
         LET found == IF o = "ok" THEN FindByEmail(accounts, mb.email) ELSE 0
             r == Called(mb, "listUsers", o)
         IN  mb' = IF found # 0
                   THEN [r EXCEPT !.userId = found,
                                  !.pc = IF mb.act = "create" THEN "upsert"
                                         ELSE "deleteUser"]
                   ELSE Respond(r, IF mb.act = "create" THEN 500 ELSE 400, "error")
    /\ UNCHANGED <<Store, Static, hk, pl, deliveries>>

\* 113-130, 132-227: upsert of one row per product id, a refused one is only
\* logged (128); then the context lookups, the welcome email and the answer 200
MembersUpsert ==
    /\ mb.pc = "upsert"
    /\ IF mb.prods = <<>>
       THEN /\ mb' = Respond(mb, 200, "success")
            /\ UNCHANGED grants
       ELSE \E o \in MemberOutcomes :
              LET ans == IF o = "ok" /\ ~AccountExists(accounts, mb.userId)
                         THEN "err" ELSE o
              IN  /\ grants' = IF ans = "ok"
                               THEN MemberGrants(grants, mb.userId, mb.prods)
                               ELSE grants
                  /\ mb' = Respond(Called(mb, "upsert", ans), 200, "success")
    /\ UNCHANGED <<payStatus, oldStatus, ordStatus, ordUser, accounts, mailed, mailFailed, Static, hk, pl,
                   deliveries>>

\* 316-326: auth.admin.deleteUser(targetId), refused (400, 318-321) for an
\* unknown or referenced account; the profile goes with the account (376, 324)
MembersDeleteUser ==
    /\ mb.pc = "deleteUser"
    /\ \E o \in MemberOutcomes :
         LET t == mb.userId
             ans == IF o = "ok" /\ (~AccountExists(accounts, t) \/ Referenced(t))
                    THEN "err" ELSE o
             r == Called(mb, "deleteUser", ans)
         IN  /\ accounts' = IF ans = "ok" THEN [accounts EXCEPT ![t] = "gone"]
                            ELSE accounts
             /\ mb' = IF ans = "ok" THEN Respond(r, 200, "success")
                      ELSE Respond(r, 400, "error")
    /\ UNCHANGED <<payStatus, oldStatus, ordStatus, ordUser, grants, mailed, mailFailed, Static, hk, pl,
                   deliveries>>

\* the response has been sent; the request is over
MembersReturn ==
    /\ mb.pc = "done"
    /\ mb' = FreshMember
    /\ UNCHANGED <<Store, Static, hk, pl, deliveries>>

-----------------------------------------------------------------------------
(* Specifications *)

InitStore ==
    /\ payStatus \in {"none", "pending", "paid"}
    /\ ordStatus \in {"pending", "paid"}
    /\ accounts \in {<<"other">>, <<"other", BuyerEmail>>}
    /\ ordUser \in {0} \cup {u \in 1..Len(accounts) : accounts[u] = BuyerEmail}
    /\ grants = {}
    /\ mailed = 0
    /\ mailFailed = FALSE
    /\ oldStatus = "none"
    /\ gws \in GatewayChoices
    /\ items \in ItemChoices
    /\ hk = [h \in Hooks |-> Fresh]
    /\ pl = FreshPoll
    /\ mb = FreshMember
    /\ deliveries = 0

Init ==
    /\ InitStore
    /\ limit = MaxDeliveries /\ conc = 1 /\ answers = Native /\ budget = -1
    /\ audit = "ok"

Next ==
    \/ \E h \in Hooks : WReceive(h)
    \/ \E h \in Hooks : WFetchPayment(h)
    \/ \E h \in Hooks : WFetchGateway(h)
    \/ \E h \in Hooks : WQueryMP(h)
    \/ \E h \in Hooks : WFetchOrder(h)
    \/ \E h \in Hooks : WPatchPayment(h)
    \/ \E h \in Hooks : WPatchOrder(h)
    \/ \E h \in Hooks : WDispatch(h)
    \/ \E h \in Hooks : WEmail(h)
    \/ \E h \in Hooks : WCreateUser(h)
    \/ \E h \in Hooks : WListUsers(h)
    \/ \E h \in Hooks : WProfiles(h)
    \/ \E h \in Hooks : WLinkUser(h)
    \/ \E h \in Hooks : WGrant(h)
    \/ \E h \in Hooks : WFetchContents(h)
    \/ \E h \in Hooks : WInsertGrant(h)
    \/ \E h \in Hooks : WReturn(h)
    \/ PReceive
    \/ PFetchOrder
    \/ PFetchPayments
    \/ PFetchGateway
    \/ PQueryMP
    \/ PPatchOrder
    \/ PPatchPayment
    \/ PReplay
    \/ PAwait
    \/ PReturn
    \/ MembersCreate
    \/ MembersDelete
    \/ MembersProfile
    \/ MembersCreateUser
    \/ MembersListUsers
    \/ MembersUpsert
    \/ MembersDeleteUser
    \/ MembersReturn

\* deliveries one after the other
Spec == Init /\ [][Next]_vars

\* two overlapping invocations on a pending order
InitConc ==
    /\ InitStore
    /\ payStatus = "pending"
    /\ ordStatus = "pending"
    /\ ordUser = 0
    /\ Len(ActiveGateways(gws)) > 1
    /\ items = <<"pA">>
    /\ limit = 2
    /\ conc = 2
    /\ answers = {"approved", "refunded"}
    /\ budget = MaxFaultsConc
    /\ audit = "ok"

SpecConc == InitConc /\ [][Next]_vars

\* deliveries one after the other, every started step of a handler is taken;
\* the gateway answers approved or not at all
InitLive ==
    /\ InitStore
    /\ payStatus # "paid"
    /\ ordStatus = "pending"
    /\ limit = MaxDeliveries
    /\ conc = 1
    /\ answers = {"approved", NoAnswer}
    /\ budget = MaxFaultsConc
    /\ audit = "ok"

SpecLive == InitLive /\ [][Next]_vars /\ WF_vars(Next)

\* deliveries one after the other for an order with two payment attempts: the
\* older one, p0, and the latest one, p1
InitAttempts ==
    /\ payStatus \in {"pending", "paid"}
    /\ oldStatus \in {"pending", "failed"}
    /\ ordStatus = payStatus
    /\ accounts \in {<<"other">>, <<"other", BuyerEmail>>}
    /\ ordUser \in {0} \cup {u \in 1..Len(accounts) : accounts[u] = BuyerEmail}
    /\ grants = {}
    /\ mailed = 0
    /\ mailFailed = FALSE
    /\ gws \in GatewayChoices
    /\ items \in ItemChoices
    /\ hk = [h \in Hooks |-> Fresh]
    /\ pl = FreshPoll
    /\ mb = FreshMember
    /\ deliveries = 0
    /\ limit = MaxDeliveries
    /\ conc = 1
    /\ answers = {"approved", "rejected"}
    /\ budget = MaxFaultsConc
    /\ audit = "ok"

SpecAttempts == InitAttempts /\ [][Next]_vars

\* deliveries one after the other on a pending order while webhook_logs accepts
\* the audit entries, refuses them, or cannot be reached
InitAudit ==
    /\ InitStore
    /\ payStatus # "paid"
    /\ ordStatus = "pending"
    /\ limit = MaxDeliveries
    /\ conc = 1
    /\ answers = {"approved", "refunded"}
    /\ budget = MaxFaultsConc
    /\ audit \in LogAnswers

SpecAudit == InitAudit /\ [][Next]_vars

\* gateways tables in which an active row was saved without its private_key
KeyChoices ==
    { <<NoKey(Gw("g2", "mercado_pago", TRUE)), Gw("g3", "mercado_pago", TRUE),
        Gw("g1", "mercado_pago", FALSE)>>,
      <<Gw("g2", "mercado_pago", TRUE), NoKey(Gw("g1", "mercado_pago", TRUE))>>,
      <<Gw("g2", "mercado_pago", TRUE), Gw("g1", "mercado_pago", TRUE)>> }

\* deliveries one after the other on a pending order, the gateway approving
InitKeys ==
    /\ payStatus \in {"none", "pending"}
    /\ ordStatus = "pending"
    /\ oldStatus = "none"
    /\ accounts \in {<<"other">>, <<"other", BuyerEmail>>}
    /\ ordUser \in {0} \cup {u \in 1..Len(accounts) : accounts[u] = BuyerEmail}
    /\ grants = {}
    /\ mailed = 0
    /\ mailFailed = FALSE
    /\ gws \in GatewayChoices \cup KeyChoices
    /\ items \in ItemChoices
    /\ hk = [h \in Hooks |-> Fresh]
    /\ pl = FreshPoll
    /\ mb = FreshMember
    /\ deliveries = 0
    /\ limit = MaxDeliveries
    /\ conc = 1
    /\ answers = {"approved"}
    /\ budget = MaxFaultsConc
    /\ audit = "ok"

SpecKeys == InitKeys /\ [][Next]_vars

\* access_grants.status (supabase.ts 297) of a grant that was taken back
RevokedGrant(u, c, p) ==
    [id |-> 1, user |-> u, content |-> c, product |-> p, status |-> "revoked"]

\* deliveries one after the other on a store with older rows: the buyer has an
\* account, an earlier grant on the checkout's product was revoked, and the
\* order status may be spelled in upper case (add.ts 260-262)
InitLegacy ==
    /\ payStatus \in {"pending", "paid"}
    /\ ordStatus \in {"pending", "paid", "PENDING"}
    /\ accounts = <<"other", BuyerEmail>>
    /\ ordUser \in {0, 2}
    /\ grants = {RevokedGrant(2, "c3", CheckoutProduct)}
    /\ mailed = 0
    /\ mailFailed = FALSE
    /\ oldStatus = "none"
    /\ gws \in GatewayChoices
    /\ items \in ItemChoices
    /\ hk = [h \in Hooks |-> Fresh]
    /\ pl = FreshPoll
    /\ mb = FreshMember
    /\ deliveries = 0
    /\ limit = MaxDeliveries
    /\ conc = 1
    /\ answers = {"approved", "pending", "rejected"}
    /\ budget = MaxFaultsConc
    /\ audit = "ok"

SpecLegacy == InitLegacy /\ [][Next]_vars

-----------------------------------------------------------------------------
(* Properties *)

Fulfilment == {"email", "createUser", "listUsers", "profiles", "linkUser",
               "fetchCheckout", "fetchContents", "grantInsert"}
Mutations == {"patchPayment", "patchOrder", "linkUser", "createUser", "grantInsert"}

\* the products the grant step of order o1 covers (mercadopago.ts 660-683)
PurchasedProducts ==
    IF ItemProducts(items) # <<>> THEN ItemProducts(items) ELSE <<CheckoutProduct>>

BuyerAccounts == {u \in 1..Len(accounts) : accounts[u] = BuyerEmail}

\* a finished webhook invocation that read payment and order as pending, with no
\* linked account, was told "approved" and met no failing collaborator
PendingApproved(h) ==
    /\ hk[h].pc = "done"
    /\ Clean(hk[h])
    /\ hk[h].mp = "approved"
    /\ hk[h].payFound /\ hk[h].paySt = "pending"
    /\ hk[h].ordFound /\ hk[h].ordSt = "pending" /\ hk[h].usr0 = 0

\* C1: a single webhook invocation on a pending, unlinked order for which the
\* gateway reports approved and every collaborator succeeds ends with payment
\* paid, order paid, the order linked to one buyer account and an active grant
\* row for every content of every purchased product.
C1_Fulfilled ==
    \A h \in Hooks :
        PendingApproved(h) =>
            /\ payStatus = "paid"
            /\ ordStatus = "paid"
            /\ ordUser \in BuyerAccounts
            /\ Cardinality(BuyerAccounts) = 1
            /\ \A i \in 1..Len(PurchasedProducts) :
                 \A j \in 1..Len(ProductContents(PurchasedProducts[i])) :
                   \E r \in grants :
                      /\ r.user = ordUser
                      /\ r.content = ProductContents(PurchasedProducts[i])[j]
                      /\ r.status = "active"

\* a finished webhook invocation that read payment and order as paid and was
\* told "approved" again
PaidApproved(h) ==
    /\ hk[h].pc = "done"
    /\ hk[h].mp = "approved"
    /\ hk[h].payFound /\ hk[h].paySt = "paid"
    /\ hk[h].ordFound /\ hk[h].ordSt = "paid"

\* C2 as stated: whenever stored payment and order are both paid and the gateway
\* reports approved again, the invocation calls no account creation and adds no
\* access-grant row.
C2_Original ==
    \A h \in Hooks :
        PaidApproved(h) => "createUser" \notin hk[h].calls /\ grants = hk[h].g0

\* C2 amended: the same, for an order that already carries a linked buyer
\* account: no account-creation call, no grant insert, no grant row added.
C2_NoRefulfilment ==
    \A h \in Hooks :
        PaidApproved(h) /\ hk[h].usr0 # 0 =>
            /\ "createUser" \notin hk[h].calls
            /\ "grantInsert" \notin hk[h].calls
            /\ grants = hk[h].g0

C2_Witness ==
    \E h \in Hooks :
        PaidApproved(h) /\ hk[h].usr0 # 0 /\ hk[h].code = 200 /\ grants # {}

\* C3: two overlapping webhook invocations that both read pending and are both
\* told approved leave, whatever the interleaving, payment and order paid, one
\* buyer account for the order's email with the order linked to it, and at most
\* one grant row per (account, content).
BothPendingApproved ==
    \A h \in Hooks : PendingApproved(h) /\ ~hk[h].replay

C3_ConcurrentApproved ==
    BothPendingApproved =>
        /\ payStatus = "paid"
        /\ ordStatus = "paid"
        /\ Cardinality(BuyerAccounts) = 1
        /\ ordUser \in BuyerAccounts
        /\ \A r1, r2 \in grants :
             r1.user = r2.user /\ r1.content = r2.content => r1.id = r2.id

C3_Witness ==
    /\ BothPendingApproved
    /\ \A h \in Hooks : "grantInsert" \in hk[h].calls /\ "email" \in hk[h].calls
    /\ "listUsers" \in hk[1].calls \cup hk[2].calls
    /\ grants # {}

\* C4: a webhook request without a transaction identifier is answered with a
\* success response and makes no store call (no read, no mutation) and no call
\* to the gateway, the dispatcher or the mailer.
C4_NoIdentifier ==
    \A h \in Hooks :
        hk[h].pc = "done" /\ ~hk[h].hasId =>
            /\ hk[h].code = 200
            /\ hk[h].calls = {}
            /\ grants = hk[h].g0

C4_Witness ==
    \E h \in Hooks : hk[h].pc = "done" /\ ~hk[h].hasId /\ hk[h].body = "ignored"

\* C5: for an order the poll reads as paid, the answer is status paid and the
\* poll makes no gateway call, no write to payments or orders and no replay.
C5_PaidShortCut ==
    pl.pc = "done" /\ pl.ordSt = "paid" =>
        /\ pl.code = 200
        /\ pl.body = "paid"
        /\ pl.calls = {"fetchOrder"}
        /\ pl.child = 0

C5_Witness == pl.pc = "done" /\ pl.ordSt = "paid" /\ pl.oid = "o1" /\ ordStatus = "paid"

\* C6: an invocation answered 500 has issued no write to payments or orders, and
\* every invocation that reached the status writes is answered 200 {success},
\* whatever fails afterwards.
C6_ErrorBeforePersistence ==
    \A h \in Hooks :
        hk[h].pc \in {"done", "returned"} =>
            /\ hk[h].code \in {200, 500}
            /\ hk[h].code = 500 => hk[h].calls \cap Mutations = {}
            /\ "patchPayment" \in hk[h].calls =>
                  hk[h].code = 200 /\ hk[h].body = "success"

C6_Witness ==
    \E h \in Hooks :
        /\ hk[h].pc = "done"
        /\ "patchPayment" \in hk[h].calls
        /\ "grantInsert" \in hk[h].calls
        /\ ~Clean(hk[h])
        /\ hk[h].gi <= Len(hk[h].prods)
        /\ hk[h].code = 200

\* C7: without an active credential, or when the gateway's status query fails,
\* the webhook answers with a failure and makes no write, no dispatch, no email,
\* no account creation and no grant insert.
NoCredential(h) == "fetchGateway" \in hk[h].calls /\ ActiveGateways(gws) = <<>>
QueryFailed(h) == "gateway" \in hk[h].calls /\ hk[h].mp = "none"

C7_PipelineFatal ==
    \A h \in Hooks :
        hk[h].pc = "done" /\ (NoCredential(h) \/ QueryFailed(h)) =>
            /\ hk[h].code = 500
            /\ hk[h].calls \cap (Mutations \cup {"dispatch", "email"}) = {}
            /\ grants = hk[h].g0

C7_Witness ==
    \E h \in Hooks : hk[h].pc = "done" /\ QueryFailed(h) /\ hk[h].payFound

\* C8: every poll carrying an order identifier is answered 200 with a canonical
\* status, whatever store and gateway return.
C8_CanonicalAnswer == pl.pc = "done" => pl.code = 200 /\ pl.body \in Canon

\* the condition the claim gives for the fulfillment gate
GateCondition(h) ==
    hk[h].newSt = "paid" /\
    (hk[h].paySt # "paid" \/ hk[h].ordSt # "paid" \/ hk[h].usr0 = 0)

\* C9: once payment and order were read and the gateway status was obtained,
\* the gate is true exactly when the new status is paid and (payment was not
\* paid, or order was not paid, or no buyer account is linked); email, account
\* and grant steps run only when the gate is true.
C9_GateExact ==
    \A h \in Hooks :
        /\ hk[h].pc = "done" /\ hk[h].payFound /\ hk[h].ordFound =>
              (hk[h].gate <=> GateCondition(h))
        /\ hk[h].calls \cap Fulfilment # {} => hk[h].gate

\* the invocation read the order and reached the step after the status writes,
\* where the gate is computed (mercadopago.ts 305-313)
GateEvaluated(h) == "dispatch" \in hk[h].calls /\ hk[h].ordFound

\* C10: charged_back is translated to refunded and written to payment and order;
\* no email, account or grant step runs and the grant rows stay as they were.
C10_ChargedBack ==
    \A h \in Hooks :
        hk[h].pc = "done" /\ hk[h].mp = "charged_back" =>
            /\ hk[h].newSt = "refunded"
            /\ hk[h].calls \cap Fulfilment = {}
            /\ grants = hk[h].g0
            /\ hk[h].payFound => {"patchPayment"} \subseteq hk[h].calls
            /\ hk[h].payFound /\ Clean(hk[h]) =>
                  /\ {"patchPayment", "patchOrder"} \subseteq hk[h].calls
                  /\ payStatus = "refunded"
                  /\ ordStatus = "refunded"

C10_Witness ==
    \E h \in Hooks :
        /\ hk[h].pc = "done" /\ hk[h].mp = "charged_back"
        /\ hk[h].paySt = "paid" /\ hk[h].ordSt = "paid"
        /\ Clean(hk[h])
        /\ grants # {}
        /\ ordStatus = "refunded"

\* C11: the webhook's translation is a total function of the native status:
\* approved -> paid; rejected, cancelled -> failed; in_process, pending ->
\* pending; refunded, charged_back -> refunded; anything else -> pending.
C11_TranslationTable ==
    \A h \in Hooks :
        hk[h].mp # "none" =>
            /\ hk[h].mp = "approved" => hk[h].newSt = "paid"
            /\ hk[h].mp \in {"rejected", "cancelled"} => hk[h].newSt = "failed"
            /\ hk[h].mp \in {"in_process", "pending"} => hk[h].newSt = "pending"
            /\ hk[h].mp \in {"refunded", "charged_back"} => hk[h].newSt = "refunded"
            /\ hk[h].mp \notin {"approved", "rejected", "cancelled", "in_process",
                                "pending", "refunded", "charged_back"} =>
                  hk[h].newSt = "pending"

C11_Witness ==
    \E h \in Hooks :
        hk[h].pc = "done" /\ hk[h].mp = "authorized" /\ hk[h].newSt = "pending"

\* the grant step went past its guard and looked up what to grant
GrantStepRan(h) == hk[h].calls \cap {"fetchCheckout", "fetchContents"} # {}

\* C12: after an "already registered" answer to the account creation (the
\* registry lookup was made), the profile lookup is made only after the registry
\* lookup; an identifier that was resolved is that of the account holding the
\* order's email and is written to the order; the grant step then runs with it
\* in the same invocation.  When no collaborator fails, the identifier is
\* resolved from the registry, stored on the order, and the grant inserts are
\* issued.
C12_AlreadyRegistered ==
    \A h \in Hooks :
        hk[h].pc = "done" /\ "listUsers" \in hk[h].calls =>
            /\ "createUser" \in hk[h].calls
            /\ hk[h].usr0 = 0
            /\ hk[h].userId # 0 =>
                  /\ hk[h].userId \in BuyerAccounts
                  /\ "linkUser" \in hk[h].calls
            /\ hk[h].ordUsr # 0 =>
                  /\ hk[h].ordUsr = hk[h].userId
                  /\ GrantStepRan(h)
                  /\ \A r \in grants \ hk[h].g0 : r.user = hk[h].userId
            /\ Clean(hk[h]) =>
                  /\ "profiles" \notin hk[h].calls
                  /\ hk[h].userId \in BuyerAccounts
                  /\ ordUser = hk[h].userId
                  /\ "grantInsert" \in hk[h].calls

\* the fallback resolved the account and the grant rows were written for it
C12_Witness ==
    \E h \in Hooks :
        /\ hk[h].pc = "done"
        /\ "profiles" \in hk[h].calls
        /\ hk[h].userId \in BuyerAccounts
        /\ ordUser = hk[h].userId
        /\ \E r \in grants \ hk[h].g0 : r.user = hk[h].userId

\* C13: a webhook invocation that read the order as paid and whose gateway
\* status translates to pending leaves the order's stored status at paid.
C13_PaidNotReverted ==
    \A h \in Hooks :
        /\ hk[h].pc = "done"
        /\ hk[h].ordFound /\ hk[h].ordSt = "paid"
        /\ hk[h].mp # "none" /\ hk[h].newSt = "pending"
        => ordStatus = "paid"

\* the contents whose grant insert the invocation has issued and got answered
RECURSIVE ContentsOf(_)
ContentsOf(ps) ==
    IF ps = <<>> THEN {}
    ELSE {ProductContents(Head(ps))[j] : j \in 1..Len(ProductContents(Head(ps)))}
         \cup ContentsOf(Tail(ps))

\* C14: after a webhook invocation whose grant step met no failing collaborator,
\* every (account, content) pair it granted and that already had a row has
\* exactly one row, and that row is active (a revoked pair is active again).
C14_RegrantUpdates ==
    \A h \in Hooks :
        hk[h].pc = "done" /\ Clean(hk[h]) /\ "grantInsert" \in hk[h].calls =>
            \A r0 \in hk[h].g0 :
                r0.user = hk[h].ordUsr /\ r0.content \in ContentsOf(hk[h].prods) =>
                    /\ \A r1, r2 \in grants :
                          r1.user = r0.user /\ r1.content = r0.content /\
                          r2.user = r0.user /\ r2.content = r0.content => r1.id = r2.id
                    /\ \E r \in grants :
                          r.user = r0.user /\ r.content = r0.content /\ r.status = "active"

\* the webhook invocations started by the poll
Replays == {h \in Hooks : hk[h].replay}

\* the poll obtained a gateway status that translates to paid for an order whose
\* stored status, lower-cased, is pending
PendingToPaid == pl.mp = "approved" /\ pl.ordSt \in {"pending", "PENDING"}

\* C15: a poll replays the webhook at most once, and does so exactly
\* when the gateway status translates to paid and the stored order status,
\* lower-cased, is pending.
C15_ReplayExactly ==
    /\ Cardinality(Replays) <= 1
    /\ pl.pc = "done" => ("replay" \in pl.calls <=> PendingToPaid)

\* C16: every webhook invocation and every poll invocation that was started
\* ends with a response, also when the gateway's status endpoint never answers.
C16_Responds ==
    /\ \A h \in Hooks : (hk[h].pc # "idle") ~> (hk[h].code # 0)
    /\ (pl.pc # "idle") ~> (pl.code # 0)

\* the failing answers of the merchant dispatch and of the email send
NotifyFailures == {<<c, o>> : c \in {"dispatch", "email"}, o \in {"err", "throw"}}

\* C17: in an authorized webhook invocation in which the merchant dispatch or
\* the email send failed (error answer or rejected fetch), the answer is 200,
\* the account creation is attempted for an unlinked order, the grant step runs
\* once the order has an account, and when nothing else failed the grant
\* inserts are issued.
C17_NotifyFailureTolerated ==
    \A h \in Hooks :
        hk[h].pc = "done" /\ hk[h].gate /\ hk[h].bad \cap NotifyFailures # {} =>
            /\ hk[h].code = 200 /\ hk[h].body = "success"
            /\ hk[h].usr0 = 0 => "createUser" \in hk[h].calls
            /\ hk[h].ordUsr # 0 => GrantStepRan(h)
            /\ hk[h].bad \subseteq NotifyFailures => "grantInsert" \in hk[h].calls

\* the email fetch was rejected; the account was created and access granted
C17_Witness ==
    \E h \in Hooks :
        /\ hk[h].pc = "done"
        /\ <<"email", "throw">> \in hk[h].bad
        /\ hk[h].usr0 = 0
        /\ ordUser \in BuyerAccounts
        /\ \E r \in grants : r.user = ordUser

\* the grant loop stopped with content items or products still to be handled
GrantsLeftOut(h) ==
    /\ hk[h].gi >= 1
    /\ hk[h].gi <= Len(hk[h].prods)
    /\ hk[h].gi < Len(hk[h].prods) \/ hk[h].gj < Len(hk[h].conts)

\* C18: when the only failures of an invocation are failed grant inserts (error
\* answer or rejected fetch), the grant loop still goes through every remaining
\* content item and product.
C18_GrantFailureIsolated ==
    \A h \in Hooks :
        /\ hk[h].pc = "done"
        /\ hk[h].bad # {}
        /\ hk[h].bad \subseteq {<<"grantInsert", "err">>, <<"grantInsert", "throw">>}
        => ~GrantsLeftOut(h)

SideEffects == {"dispatch", "email", "createUser", "grantInsert"}
StatusWrites == {"patchPayment", "patchOrder"}

\* an invocation that found the payment record and obtained a gateway status,
\* and has answered
Reconciled(h) == hk[h].pc = "done" /\ hk[h].payFound /\ hk[h].mp # "none"

\* C19: every invocation that found a payment record and obtained a
\* gateway status issues the payment and the order status write, both before any
\* dispatch, email, account creation or grant insert, whatever the gate and the
\* stored status are.
C19_WritesUnconditional ==
    \A h \in Hooks :
        /\ hk[h].calls \cap SideEffects # {} => StatusWrites \subseteq hk[h].calls
        /\ Reconciled(h) => StatusWrites \subseteq hk[h].calls

\* a finished poll that saw pending become paid, replayed the webhook, and met
\* no failing collaborator, neither itself nor in the replayed invocation, to
\* which the gateway reported approved as well
CleanReplay(h) ==
    /\ pl.pc = "done" /\ Clean(pl)
    /\ PendingToPaid
    /\ "replay" \in pl.calls
    /\ pl.child = h /\ hk[h].replay /\ hk[h].pc = "returned" /\ Clean(hk[h])
    /\ hk[h].mp = "approved" /\ hk[h].ordFound

\* C20: after such a poll the confirmation email has been sent and the order's
\* account holds an active grant on every purchased product, whether the order
\* carried a linked account before the poll or not.
C20_ReplayFulfils ==
    \A h \in Hooks :
        CleanReplay(h) =>
            /\ "email" \in hk[h].calls
            /\ \A i \in 1..Len(PurchasedProducts) :
                 \E r \in grants :
                    /\ r.user = ordUser
                    /\ r.product = PurchasedProducts[i]
                    /\ r.status = "active"

\* a clean delivery, told approved, that found what a pass with a linked account
\* leaves behind: payment paid, order paid and linked
PaidLinkedApproved(h) ==
    /\ PaidApproved(h)
    /\ Clean(hk[h])
    /\ hk[h].usr0 # 0

\* the purchased products for which account u held no grant row in g
Ungranted(g, u) ==
    {i \in 1..Len(PurchasedProducts) :
        ~ \E r \in g : r.user = u /\ r.product = PurchasedProducts[i]}

\* C21: a later delivery, still told approved, for an order that a previous
\* pass linked but left without some grant, issues the grant inserts again.
C21_GrantsRetried ==
    \A h \in Hooks :
        PaidLinkedApproved(h) /\ Ungranted(hk[h].g0, hk[h].usr0) # {} =>
            /\ "grantInsert" \in hk[h].calls
            /\ Ungranted(grants, hk[h].usr0) = {}

\* C22: an invocation whose account creation was answered with another error
\* links no account, issues no grant insert and answers 200 (the only grant rows
\* that appear during it are those of the store's order-paid trigger, for the
\* checkout's product); a delivery, told approved,
\* that then reads payment paid, order paid and no linked account, and reaches
\* the gate, is authorized again and calls the account creation; when nothing
\* fails in it, it issues the grant inserts.
C22_CreationFailureRetried ==
    \A h \in Hooks :
        /\ hk[h].pc = "done" /\ <<"createUser", "err">> \in hk[h].bad =>
              /\ hk[h].code = 200 /\ hk[h].body = "success"
              /\ hk[h].userId = 0 /\ hk[h].ordUsr = 0
              /\ "linkUser" \notin hk[h].calls
              /\ "grantInsert" \notin hk[h].calls
              /\ \A r \in grants \ hk[h].g0 :
                    /\ r.user = FindByEmail(accounts, BuyerEmail)
                    /\ r.product = CheckoutProduct
        /\ PaidApproved(h) /\ hk[h].usr0 = 0 /\ GateEvaluated(h) =>
              /\ hk[h].gate
              /\ "createUser" \in hk[h].calls
              /\ Clean(hk[h]) => "grantInsert" \in hk[h].calls

\* the retry: payment and order were paid already, the account did not exist
\* before this delivery and is now linked, with grants
C22_Witness ==
    \E h \in Hooks :
        /\ PaidApproved(h) /\ hk[h].usr0 = 0 /\ Clean(hk[h])
        /\ hk[h].userId = Len(accounts)
        /\ "listUsers" \notin hk[h].calls
        /\ ordUser = hk[h].userId
        /\ \E r \in grants : r.user = ordUser

\* C23: over deliveries made one after the other for the approved transaction,
\* the mailer accepts at most one confirmation email for the order.
C23_OneEmail == mailed <= 1

\* C24: every invocation that found a payment record and obtained a
\* gateway status sends the merchant dispatch, also when the stored payment and
\* order status already equal the new status.
C24_DispatchAlways ==
    \A h \in Hooks : Reconciled(h) => "dispatch" \in hk[h].calls

\* C25: an invocation that resolved an account for an unlinked order has issued
\* the write of the identifier to the order before its first grant insert, and
\* when nothing failed the order holds that identifier; an invocation that reads
\* the order with a linked account does not call the account creation.
C25_LinkBeforeGrants ==
    \A h \in Hooks :
        /\ "grantInsert" \in hk[h].calls /\ hk[h].usr0 = 0 =>
              "linkUser" \in hk[h].calls /\ hk[h].userId # 0
        /\ hk[h].pc = "done" /\ Clean(hk[h]) /\ hk[h].userId # 0 =>
              ordUser = hk[h].userId
        /\ hk[h].ordFound /\ hk[h].usr0 # 0 => "createUser" \notin hk[h].calls

\* an invocation read the linkage that the other one had written
C25_Witness ==
    \E h, g \in Hooks :
        /\ hk[h].pc = "done" /\ hk[h].ordFound /\ hk[h].usr0 # 0
        /\ hk[h].gate
        /\ "createUser" \notin hk[h].calls
        /\ "grantInsert" \in hk[h].calls
        /\ "linkUser" \in hk[g].calls /\ hk[g].userId = hk[h].usr0

\* C26: when the latest attempt has made the order paid, a webhook for the older
\* attempt that is told rejected leaves the order's stored status at paid.
C26_OlderAttemptHarmless ==
    \A h \in Hooks :
        /\ hk[h].pc = "done" /\ Clean(hk[h])
        /\ hk[h].pid = "t0" /\ hk[h].mp = "rejected"
        /\ hk[h].ordFound /\ hk[h].ordSt = "paid"
        /\ payStatus = "paid"
        => ordStatus = "paid"

\* both overlapping invocations have answered, one was told approved and the
\* other refunded, and no collaborator failed
BothDoneDiffering ==
    /\ \A h \in Hooks : hk[h].pc = "done" /\ Clean(hk[h]) /\ ~hk[h].replay
    /\ {hk[h].mp : h \in Hooks} = {"approved", "refunded"}

\* C27: after two overlapping invocations of the transaction that were told
\* different statuses, stored payment status and stored order status are equal.
C27_StatusesAgree == BothDoneDiffering => payStatus = ordStatus

FulfilmentCalls == {"email", "createUser", "grantInsert"}
RefusedWrites == {<<"patchPayment", "err">>, <<"patchOrder", "err">>}

\* C28: an invocation that has sent the email, called the account creation or
\* inserted a grant finds the stored order status at paid, and an invocation one
\* of whose status writes was answered with an error does none of the three.
C28_FulfilmentAfterPersistence ==
    \A h \in Hooks :
        /\ hk[h].calls \cap FulfilmentCalls # {} => ordStatus = "paid"
        /\ hk[h].bad \cap RefusedWrites # {} => hk[h].calls \cap FulfilmentCalls = {}

\* C29: a webhook for a transaction without stored payment record, with a
\* credential resolved and the gateway answering, writes nothing to payments,
\* orders, accounts or grants and is answered 200 with a success body.
C29_UnknownPaymentAcknowledged ==
    \A h \in Hooks :
        /\ hk[h].pc = "done" /\ Clean(hk[h])
        /\ StoredPayment(hk[h].pid) = "none"
        /\ hk[h].mp # "none"
        => /\ hk[h].calls \cap Mutations = {}
           /\ grants = hk[h].g0
           /\ hk[h].code = 200 /\ hk[h].body = "success"

\* the confirmation emails accepted before invocation h was delivered, for an
\* invocation that met no failure and ran alone: its own email, if it sent one,
\* was accepted
MailedBefore(h) == mailed - (IF "email" \in hk[h].calls THEN 1 ELSE 0)

\* C30: when the email send of an earlier pass failed and the mailer had accepted
\* no confirmation email before this delivery, a later delivery, still told
\* approved, that reads the order paid and linked and meets no failure sends the
\* email and the mailer accepts it.
C30_EmailRetried ==
    \A h \in Hooks :
        /\ PaidLinkedApproved(h) /\ ~hk[h].replay
        /\ mailFailed /\ MailedBefore(h) = 0
        => "email" \in hk[h].calls /\ mailed >= 1

\* C31: once the order is linked to an account, no step of a webhook or poll
\* invocation, overlapping or not, replaces the link by another account.
C31_LinkStable ==
    [][ordUser # 0 => ordUser' = ordUser]_vars

\* two overlapping webhooks have both written the link
C31_Witness ==
    /\ ordUser # 0
    /\ \A h \in Hooks :
          /\ "linkUser" \in hk[h].calls
          /\ hk[h].usr0 = 0
          /\ hk[h].bad = {}

\* C32: the status the poll handler derives from a gateway answer is the one
\* the webhook handler derives from the same answer, for every native status.
C32_SameTranslation ==
    pl.mp # "none" => pl.newSt = Translate(pl.mp)

\* the poll's gateway status query was made and failed
PollQueryFailed ==
    pl.bad \cap {<<"gateway", "err">>, <<"gateway", "throw">>} # {}

\* the poll read the gateways table and found no usable row for the payment
PollNoCredential ==
    "fetchGateway" \in pl.calls /\ Clean(pl) /\ pl.token = "none"

\* C33: a poll whose gateway status query failed, or which found no gateway
\* credential for the payment, answers 200 with the stored order status, writes
\* neither payments nor orders and does not replay the webhook.
C33_PollFallsBack ==
    pl.pc = "done" /\ (PollQueryFailed \/ PollNoCredential) =>
        /\ pl.code = 200 /\ pl.body = pl.ordSt
        /\ pl.calls \cap (StatusWrites \cup {"replay"}) = {}

\* the steps the handlers take when every audit entry is accepted
QuietNext ==
    \/ \E h \in Hooks :
          \/ WReceiveLog(h, "ok") \/ WFetchPaymentLog(h, "ok")
          \/ WFetchGatewayLog(h, "ok") \/ WQueryMPLog(h, "ok")
          \/ WFetchOrderLog(h, "ok") \/ WPatchPaymentLog(h, "ok")
          \/ WPatchOrderLog(h, "ok") \/ WDispatchLog(h, "ok")
          \/ WEmailLog(h, "ok") \/ WCreateUserLog(h, "ok")
          \/ WListUsersLog(h, "ok") \/ WProfilesLog(h, "ok")
          \/ WLinkUserLog(h, "ok") \/ WGrantLog(h, "ok")
          \/ WFetchContentsLog(h, "ok") \/ WInsertGrantLog(h, "ok")
          \/ WReturn(h)
    \/ PReceive \/ PFetchOrder \/ PFetchPayments \/ PFetchGateway \/ PQueryMP
    \/ PPatchOrder \/ PPatchPayment \/ PReplay \/ PAwait \/ PReturn
    \/ MembersCreate \/ MembersDelete \/ MembersProfile \/ MembersCreateUser
    \/ MembersListUsers \/ MembersUpsert \/ MembersDeleteUser \/ MembersReturn

\* C34: whatever webhook_logs answers to the audit entries, every step of a
\* webhook invocation is the step taken when the entries are accepted: the same
\* writes to payments, orders, accounts and grants, the same dispatch and email
\* calls, the same response.
C34_AuditFrame ==
    [][QuietNext]_vars

\* with webhook_logs failing, an invocation has gone through the status writes,
\* the email, the account and the grants and has answered
C34_Witness ==
    /\ audit # "ok"
    /\ mailed >= 1
    /\ \E h \in Hooks :
          /\ hk[h].pc = "done" /\ hk[h].code = 200
          /\ {"patchPayment", "patchOrder", "dispatch", "email", "createUser",
              "linkUser", "grantInsert"} \subseteq hk[h].calls

\* C35: the webhook uses, among the active mercado_pago rows, the row the
\* payment record refers to when there is one, otherwise the first active row,
\* also without payment record; it is without credential only when no row is
\* active.
C35_CredentialChosen ==
    \A h \in Hooks :
        "fetchGateway" \in hk[h].calls /\ Clean(hk[h]) =>
            LET act == ActiveGateways(gws)
                own == \E i \in 1..Len(act) : act[i].id = PaymentGateway
            IN  hk[h].token = IF Len(act) = 0 THEN "none"
                              ELSE IF hk[h].payFound /\ own THEN PaymentGateway
                              ELSE act[1].id

\* C36: for an order with several payment records the poll works on the
\* most recently created one: it is the transaction queried at the gateway, and
\* the status write of the poll leaves the older record as it was.
C36_LatestAttempt ==
    /\ [](oldStatus # "none" /\ "fetchPayments" \in pl.calls /\ pl.pid # "none"
             => pl.pid = "t1")
    /\ [][pl.pc = "patchPayment" => oldStatus' = oldStatus]_vars

\* a poll on an order with two payment records has queried the gateway and
\* written the new status to the latest record
C36_Witness ==
    /\ oldStatus # "none"
    /\ pl.pc = "done" /\ Clean(pl)
    /\ {"gateway", "patchPayment"} \subseteq pl.calls
    /\ payStatus = pl.newSt /\ payStatus # oldStatus

\* C37: starting from canonical stored statuses, whatever the webhook and poll
\* invocations do, every stored payment status and the stored order status is
\* one of pending, paid, failed, refunded.
C37_CanonicalStatuses ==
    /\ ordStatus \in Canon
    /\ payStatus \in Canon \cup {"none"}
    /\ oldStatus \in Canon \cup {"none"}

\* a webhook was told a status the handler does not know and has written both
\* records
C37_Witness ==
    \E h \in Hooks :
        /\ hk[h].pc = "done" /\ Clean(hk[h])
        /\ hk[h].mp = "authorized"
        /\ StatusWrites \subseteq hk[h].calls
        /\ hk[h].paySt = "paid" /\ payStatus = "pending" /\ ordStatus = "pending"

====
